---- MODULE Spec2Model ----
(***************************************************************************)
(* logparsely: the ingestion pipeline (src/ingestion.rs), the shutdown     *)
(* coordinator SharedState (src/concurrency_helper.rs), the evolving wide  *)
(* table store (src/storage.rs) and the orchestrator loop (src/cli.rs).    *)
(*                                                                         *)
(* Every Mutex critical section of SharedState is one atomic action: the   *)
(* mutex gives exactly that.  Condvar::wait releases the mutex and blocks  *)
(* in one step; a blocked thread leaves the wait by notify_all or by a     *)
(* spurious wake-up and then re-evaluates its loop condition.              *)
(*                                                                         *)
(* Not modelled: a poisoned mutex (LockError, unwrap panics), a kill() that *)
(* fails, and SQLite errors other than one that can strike any statement   *)
(* of a batch (at most MaxFaults times) and leaves its transaction open.   *)
(***************************************************************************)
EXTENDS Integers, Sequences, FiniteSets, TLC

\* ------------------------------------------------------------- bounds
\* number of entries of the --srcs list handed to noninteractive_mode
NumSrcs == 2
\* lines the child processes of a run write in total
MaxLines == 1
\* the same, for the runs that exercise the store
MaxStoreLines == 3
\* the same, for the runs of two sources with a table each
MaxIsoLines == 2
\* the same, for the runs that exercise flatten_json
MaxFlatLines == 2
\* transient statement failures (SQLITE_BUSY and the like) the engine injects
MaxFaults == 1

\* ------------------------------------------------- program constants
\* storage.rs: const MAX_DB_WRITE_ATTEMPTS: u32 = 3
MAX_DB_WRITE_ATTEMPTS == 3
\* storage.rs: pub const RAW_UNPARSABLE_COL
RAW_UNPARSABLE_COL == "raw_unparsable_line"

SrcIds == 1..NumSrcs
\* the threads that call stop() and then wait_all_children_done():
\* the main thread after the operator's quit key, and the interrupt handler
Callers == {"main", "ctrlc"}


\* all orderings of a finite set (HashMap key iteration order is arbitrary)
RECURSIVE Orderings(_)
Orderings(S) ==
  IF S = {} THEN {<<>>}
  ELSE UNION {{<<x>> \o q : q \in Orderings(S \ {x})} : x \in S}

\* ------------------------------------------------ serde_json::Value
\* a JSON value: t is the variant, n/s/b the scalar payload, kids the fields
\* of an object (in serde_json's map order) or the elements of an array
JNum(n) == [t |-> "num", n |-> n, s |-> "", b |-> FALSE, kids |-> <<>>]
JStr(s) == [t |-> "str", n |-> 0, s |-> s, b |-> FALSE, kids |-> <<>>]
JBool(b) == [t |-> "bool", n |-> 0, s |-> "", b |-> b, kids |-> <<>>]
JNull == [t |-> "null", n |-> 0, s |-> "", b |-> FALSE, kids |-> <<>>]
JObj(fields) == [t |-> "obj", n |-> 0, s |-> "", b |-> FALSE, kids |-> fields]
JArr(elems) ==
  [t |-> "arr", n |-> 0, s |-> "", b |-> FALSE,
   kids |-> [i \in 1..Len(elems) |-> [k |-> "", v |-> elems[i]]]]
Fld(k, v) == [k |-> k, v |-> v]

\* Value::to_string() of a scalar: the value serialised as JSON text, so a
\* string keeps its double quotes
ValueToString(json) ==
  CASE json.t = "num" -> ToString(json.n)
    [] json.t = "str" -> "\"" \o json.s \o "\""
    [] json.t = "bool" -> (IF json.b THEN "true" ELSE "false")
    [] OTHER -> "null"

\* HashMap<String, String>
EmptyMap == [k \in {} |-> ""]
MapInsert(m, k, v) == [x \in (DOMAIN m) \cup {k} |-> IF x = k THEN v ELSE m[x]]

RECURSIVE flatten_json_recursive(_, _, _)
RECURSIVE FlattenKids(_, _, _, _, _)
\* variant of FlattenKids: array elements are numbered from 1
FlattenKids_OneBasedIndex(json, i, prefix, result, isObj) ==
  IF i > Len(json.kids) THEN result
  ELSE LET kid == json.kids[i]
           new_prefix ==
             IF isObj
             THEN (IF prefix = "" THEN kid.k ELSE prefix \o "." \o kid.k)
             ELSE prefix \o "[" \o ToString(i) \o "]"
       IN FlattenKids(json, i + 1, prefix,
                      flatten_json_recursive(kid.v, new_prefix, result), isObj)

\* the two for loops of flatten_json_recursive, from kid i on
FlattenKids(json, i, prefix, result, isObj) ==
  IF i > Len(json.kids) THEN result
  ELSE LET kid == json.kids[i]
           new_prefix ==
             IF isObj
             THEN (IF prefix = "" THEN kid.k ELSE prefix \o "." \o kid.k)
             ELSE prefix \o "[" \o ToString(i - 1) \o "]"
       IN FlattenKids(json, i + 1, prefix,
                      flatten_json_recursive(kid.v, new_prefix, result), isObj)

flatten_json_recursive(json, prefix, result) ==
  CASE json.t = "obj" -> FlattenKids(json, 1, prefix, result, TRUE)
    [] json.t = "arr" -> FlattenKids(json, 1, prefix, result, FALSE)
    [] OTHER -> MapInsert(result, prefix, ValueToString(json))

flatten_json(json) == flatten_json_recursive(json, "", EmptyMap)

\* --------------------------------------------------------- lines
\* what BufReader::lines() yields for a line that is not valid UTF-8
BadUtf8Line == "<invalid utf-8>"
LineX == "{\"x\":1}"
LineY == "{\"y\":2}"
LineNotJson == "not json"
LineEmptyObj == "{}"
LineNumber == "7"
LineNested == "{\"a\":{\"b\":1},\"c\":[10,20]}"
LineStr == "{\"x\":\"hi\"}"
LineCollide == "{\"a\":{\"b\":1},\"a.b\":2}"
LineDeep == "{\"c\":[{\"d\":1},[2]]}"
LineHollow == "{\"a\":{},\"c\":[]}"
LineScalars == "{\"n\":null,\"s\":\"hi\",\"t\":true}"

\* serde_json::from_str::<Value>(&line): Ok(value) or Err
ParseOk(v) == [ok |-> TRUE, val |-> v]
ParseErr == [ok |-> FALSE, val |-> JNull]
from_str(line) ==
  CASE line = LineX -> ParseOk(JObj(<<Fld("x", JNum(1))>>))
    [] line = LineY -> ParseOk(JObj(<<Fld("y", JNum(2))>>))
    [] line = LineEmptyObj -> ParseOk(JObj(<<>>))
    [] line = LineNumber -> ParseOk(JNum(7))
    [] line = LineNested ->
         ParseOk(JObj(<<Fld("a", JObj(<<Fld("b", JNum(1))>>)),
                        Fld("c", JArr(<<JNum(10), JNum(20)>>))>>))
    [] line = LineStr -> ParseOk(JObj(<<Fld("x", JStr("hi"))>>))
    [] line = LineCollide ->
         ParseOk(JObj(<<Fld("a", JObj(<<Fld("b", JNum(1))>>)), Fld("a.b", JNum(2))>>))
    [] line = LineDeep ->
         ParseOk(JObj(<<Fld("c", JArr(<<JObj(<<Fld("d", JNum(1))>>),
                                        JArr(<<JNum(2)>>)>>))>>))
    [] line = LineHollow -> ParseOk(JObj(<<Fld("a", JObj(<<>>)), Fld("c", JArr(<<>>))>>))
    [] line = LineScalars ->
         ParseOk(JObj(<<Fld("n", JNull), Fld("s", JStr("hi")), Fld("t", JBool(TRUE))>>))
    [] OTHER -> ParseErr

\* ------------------------------------------------- table names
\* a command is a sequence of characters
RECURSIVE Replace(_, _, _)
\* str::replace(from, to) for a one-character pattern
Replace(str, from, to) ==
  IF str = <<>> THEN <<>>
  ELSE (IF Head(str) = from THEN to ELSE <<Head(str)>>) \o Replace(Tail(str), from, to)

\* add_src: the sanitised table name
table_src_name(cmd) ==
  Replace(Replace(Replace(Replace(Replace(Replace(cmd,
    " ", <<"_">>), ".", <<"_">>), "-", <<"_">>), "/", <<"_">>), "\\", <<"_">>),
    "~", <<"H", "O", "M", "E">>)

CmdTail == <<"t", "a", "i", "l">>
CmdTailF == <<"t", "a", "i", "l", " ", "f">>
CmdTailDashF == <<"t", "a", "i", "l", "-", "f">>
CmdPipe == <<"a", "|", "b">>
CmdCat == <<"c", "a", "t">>
CmdCatA == <<"c", "a", "t", " ", "a">>
Cmds == {CmdTail, CmdTailF, CmdTailDashF, CmdPipe, CmdCat, CmdCatA}
TableNames == {table_src_name(c) : c \in Cmds}

\* characters SQLite accepts in an unquoted identifier
IdentChars ==
  {"a", "b", "c", "f", "i", "l", "t", "_", "H", "O", "M", "E"}
\* CREATE TABLE IF NOT EXISTS {table_name} parses only for such a name
ValidTableName(name) == name # <<>> /\ \A i \in 1..Len(name) : name[i] \in IdentChars

\* ---------------------------------------- the SQLite connection
\* The connection is [tables, txn]: per table name whether it exists, its
\* column catalog and its rows, and whether a transaction is open.  A row is
\* the map of the columns the INSERT named; every other column reads NULL.
NoTable == [exists |-> FALSE, cols |-> {}, rows |-> <<>>]

StmtBegin == [op |-> "BEGIN", tbl |-> <<>>, col |-> "", row |-> EmptyMap]
StmtCommit == [op |-> "COMMIT", tbl |-> <<>>, col |-> "", row |-> EmptyMap]
\* ALTER TABLE {tbl} ADD `{col}` TEXT
StmtAlter(tbl, col) == [op |-> "ALTER", tbl |-> tbl, col |-> col, row |-> EmptyMap]
\* INSERT INTO {tbl} ({cols of row}) VALUES (?, ...)
StmtInsert(tbl, row) == [op |-> "INSERT", tbl |-> tbl, col |-> "", row |-> row]

ExecOk(c) == [ok |-> TRUE, conn |-> c]
ExecErr(c) == [ok |-> FALSE, conn |-> c]

\* variant of ExecStmt: INSERT puts the new row before the rows already stored
ExecStmt_InsertFirst(st, c) ==
  CASE st.op = "BEGIN" ->
         IF c.txn THEN ExecErr(c) ELSE ExecOk([c EXCEPT !.txn = TRUE])
    [] st.op = "COMMIT" ->
         IF c.txn THEN ExecOk([c EXCEPT !.txn = FALSE]) ELSE ExecErr(c)
    [] st.op = "ALTER" ->
         IF c.tables[st.tbl].exists /\ st.col \notin c.tables[st.tbl].cols
         THEN ExecOk([c EXCEPT !.tables[st.tbl].cols = @ \cup {st.col}])
         ELSE ExecErr(c)
    [] OTHER ->
         IF /\ c.tables[st.tbl].exists
            /\ DOMAIN st.row # {}
            /\ DOMAIN st.row \subseteq c.tables[st.tbl].cols
         THEN ExecOk([c EXCEPT !.tables[st.tbl].rows = <<st.row>> \o @])
         ELSE ExecErr(c)

\* variant of ExecStmt: ADD of a column gives the rows already stored an empty
\* text in it
ExecStmt_AlterBackfills(st, c) ==
  CASE st.op = "BEGIN" ->
         IF c.txn THEN ExecErr(c) ELSE ExecOk([c EXCEPT !.txn = TRUE])
    [] st.op = "COMMIT" ->
         IF c.txn THEN ExecOk([c EXCEPT !.txn = FALSE]) ELSE ExecErr(c)
    [] st.op = "ALTER" ->
         IF c.tables[st.tbl].exists /\ st.col \notin c.tables[st.tbl].cols
         THEN ExecOk([c EXCEPT !.tables[st.tbl].cols = @ \cup {st.col},
                               !.tables[st.tbl].rows =
                                 [i \in 1..Len(@) |-> MapInsert(@[i], st.col, "")]])
         ELSE ExecErr(c)
    [] OTHER ->
         IF /\ c.tables[st.tbl].exists
            /\ DOMAIN st.row # {}
            /\ DOMAIN st.row \subseteq c.tables[st.tbl].cols
         THEN ExecOk([c EXCEPT !.tables[st.tbl].rows = Append(@, st.row)])
         ELSE ExecErr(c)

\* one statement on the connection: BEGIN inside a transaction, COMMIT outside
\* one, ADD of an existing column, INSERT naming no column or an unknown
\* column are errors and change nothing
ExecStmt(st, c) ==
  CASE st.op = "BEGIN" ->
         IF c.txn THEN ExecErr(c) ELSE ExecOk([c EXCEPT !.txn = TRUE])
    [] st.op = "COMMIT" ->
         IF c.txn THEN ExecOk([c EXCEPT !.txn = FALSE]) ELSE ExecErr(c)
    [] st.op = "ALTER" ->
         IF c.tables[st.tbl].exists /\ st.col \notin c.tables[st.tbl].cols
         THEN ExecOk([c EXCEPT !.tables[st.tbl].cols = @ \cup {st.col}])
         ELSE ExecErr(c)
    [] OTHER ->
         IF /\ c.tables[st.tbl].exists
            /\ DOMAIN st.row # {}
            /\ DOMAIN st.row \subseteq c.tables[st.tbl].cols
         THEN ExecOk([c EXCEPT !.tables[st.tbl].rows = Append(@, st.row)])
         ELSE ExecErr(c)

RECURSIVE ExecFrom(_, _, _, _)
\* statements i.. of a batch, stopping at the first error; statement number
\* busyAt (0: none) fails with a transient engine error
ExecFrom(stmts, i, c, busyAt) ==
  IF i > Len(stmts) THEN ExecOk(c)
  ELSE IF i = busyAt THEN ExecErr(c)
  ELSE LET r == ExecStmt(stmts[i], c)
       IN IF r.ok THEN ExecFrom(stmts, i + 1, r.conn, busyAt) ELSE r

\* Connection::execute_batch / Connection::execute
execute_batch(stmts, c, busyAt) == ExecFrom(stmts, 1, c, busyAt)

\* the statements of a batch that take the write lock and so can meet a
\* transient failure: every ALTER, and the COMMIT that follows one
BusyPoints(stmts) ==
  {i \in 1..Len(stmts) :
     \/ stmts[i].op \in {"ALTER", "INSERT"}
     \/ stmts[i].op = "COMMIT" /\ \E j \in 1..(i - 1) : stmts[j].op = "ALTER"}

\* variant of batch_stmt: the ALTERs are left out
batch_stmt_without_alters(tbl, new_cols) == <<StmtBegin, StmtCommit>>

\* insert_data: batch_stmt = "BEGIN; " + alters + " COMMIT;"
batch_stmt(tbl, new_cols) ==
  <<StmtBegin>> \o [i \in 1..Len(new_cols) |-> StmtAlter(tbl, new_cols[i])]
    \o <<StmtCommit>>

\* variant of insert_stmt: every column of col_lookup is named, with an empty
\* text for the columns the record does not have
insert_stmt_all_columns(tbl, lookup, rec) ==
  StmtInsert(tbl, [k \in lookup |-> IF k \in DOMAIN rec THEN rec[k] ELSE ""])

\* insert_data: the columns of col_lookup the record has, with their values
insert_stmt(tbl, lookup, rec) ==
  StmtInsert(tbl, [k \in (lookup \cap DOMAIN rec) |-> rec[k]])

\* ------------------------------------------------------------- state
VARIABLES
  srcs,          \* noninteractive_mode: the list of commands
  next_src,      \* noninteractive_mode: index of the for loop
  add_pc,        \* add_src: "spawn", "incr" or "thread"
  launch,        \* per source: "pending", "failed" (spawn error) or "ok"
  table_name,    \* per source: add_src's table_src_name
  should_stop,   \* SharedState.should_stop
  child_ctr,     \* SharedState.child_ctr
  cnd,           \* threads blocked in SharedState.cnd.wait
  all_children_done, \* threads blocked in SharedState.all_children_done.wait
  caller_pc,     \* per shutdown caller: "idle", "wait" (in wait_all_children_done), "returned"
  child,         \* per source, the sh process: "none", "running", "exited", "killed"
  lines_left,    \* lines the children may still write
  pipe,          \* per source: lines written to stdout and not read yet
  ing_pc,        \* per source, the ingestion thread: "none", "new", "new_failed",
                 \* "read", "lock", "alter", "insert", "join", "done"
  mon_pc,        \* per source, the monitor thread: "none", "wait", "kill", "leave", "done"
  col_lookup,    \* per source: EvolvingWideTable.col_lookup
  data,          \* per source: the record of the insert_data call in progress
  new_cols,      \* per source: insert_data's new_cols, in the order of the ALTERs
  attempt,       \* per source: attempt_with_retry's attempt
  conn_lock,     \* holder of the Mutex<Connection> (0: free)
  conn,          \* the shared connection: [tables, txn]
  faults,        \* transient statement failures injected so far
  enters,        \* history, per source: incr() calls made for it
  leaves,        \* history, per source: who called decr, in order
  results,       \* history, per source: what each insert_data call returned
  keys_seen,     \* history, per source: keys of the records insert_data was called with
  keys_ok,       \* history, per source: keys of the records insert_data returned Ok for
  read_log,      \* history, per source: each line read as Ok(line), whether insert_data
                 \* was called for it, and the record it was called with
  mig_log,       \* history, per source: results of schema_alter_closure in the last call
  ins_log,       \* history, per source: results of insertion_closure in the last call
  faulted,       \* history, per source: a transient failure struck one of its statements
  stops          \* history: completed stop() calls

vars ==
  <<srcs, next_src, add_pc, launch, table_name, should_stop, child_ctr, cnd,
    all_children_done, caller_pc, child, lines_left, pipe, ing_pc, mon_pc,
    col_lookup, data, new_cols, attempt, conn_lock, conn, faults, enters,
    leaves, results, keys_seen, keys_ok, read_log, mig_log, ins_log, faulted,
    stops>>

coordVars == <<should_stop, child_ctr, cnd, all_children_done>>
procVars == <<child, lines_left, pipe>>
storeVars ==
  <<col_lookup, data, new_cols, attempt, conn_lock, conn, faults, results,
    keys_seen, keys_ok, read_log, mig_log, ins_log, faulted>>
orchVars == <<srcs, next_src, add_pc, launch, table_name>>

\* the lines a command may print
CmdOutput(cmd) ==
  CASE cmd = CmdTailF -> {LineX, LineY, LineNotJson}
    [] cmd = CmdTailDashF -> {LineX, LineNumber}
    [] cmd = CmdTail -> {LineNested, LineStr, LineEmptyObj, BadUtf8Line}
    [] cmd = CmdCatA ->
         {LineNested, LineEmptyObj, LineCollide, LineDeep, LineHollow, LineScalars}
    [] OTHER -> {LineX}

\* the command lists of a run: two commands with a table each that collide
\* (tail f, tail-f), and a command with no valid table name (a|b)
SrcLists == {<<CmdTailF, CmdTailDashF>>, <<CmdTailF, CmdPipe>>}
\* the command lists of the runs that exercise the store: a command printing
\* flat objects and a line that is no JSON, and a command printing nested
\* objects, an empty object and a line that cannot be read
StoreSrcLists == {<<CmdTailF>>, <<CmdTail>>}

InitWith(lists, budget) ==
  /\ srcs \in lists
  /\ next_src = 1
  /\ add_pc = "spawn"
  /\ launch = [s \in SrcIds |-> "pending"]
  /\ table_name = [s \in SrcIds |-> <<>>]
  /\ should_stop = FALSE
  /\ child_ctr = 0
  /\ cnd = {}
  /\ all_children_done = {}
  /\ caller_pc = [c \in Callers |-> "idle"]
  /\ child = [s \in SrcIds |-> "none"]
  /\ lines_left = budget
  /\ pipe = [s \in SrcIds |-> <<>>]
  /\ ing_pc = [s \in SrcIds |-> "none"]
  /\ mon_pc = [s \in SrcIds |-> "none"]
  /\ col_lookup = [s \in SrcIds |-> {}]
  /\ data = [s \in SrcIds |-> EmptyMap]
  /\ new_cols = [s \in SrcIds |-> <<>>]
  /\ attempt = [s \in SrcIds |-> 0]
  /\ conn_lock = 0
  /\ conn = [tables |-> [t \in TableNames |-> NoTable], txn |-> FALSE]
  /\ faults = 0
  /\ enters = [s \in SrcIds |-> 0]
  /\ leaves = [s \in SrcIds |-> <<>>]
  /\ results = [s \in SrcIds |-> <<>>]
  /\ keys_seen = [s \in SrcIds |-> {}]
  /\ keys_ok = [s \in SrcIds |-> {}]
  /\ read_log = [s \in SrcIds |-> <<>>]
  /\ mig_log = [s \in SrcIds |-> <<>>]
  /\ ins_log = [s \in SrcIds |-> <<>>]
  /\ faulted = [s \in SrcIds |-> FALSE]
  /\ stops = 0

Init == InitWith(SrcLists, MaxLines)

\* ------------------------------------------------------ SharedState
\* variant of stop: the flag is flipped instead of set
stop_toggles_flag ==
  /\ should_stop' = ~should_stop
  /\ cnd' = {}

\* variant of stop: the flag is set and nobody is notified
stop_without_notify ==
  /\ should_stop' = TRUE
  /\ cnd' = cnd

\* stop(): under the should_stop mutex, set the flag and notify_all on cnd
stop ==
  /\ should_stop' = TRUE
  /\ cnd' = {}

\* variant of incr: the update is lost
incr_lost ==
  /\ child_ctr' = child_ctr

\* incr(): under the child_ctr mutex
incr ==
  /\ child_ctr' = child_ctr + 1

\* variant of decr_and_notify_all_children_done_awaiters: the counter is
\* written back from a value read before a concurrent update (unguarded
\* read-modify-write), here the value it already has
decr_from_stale_read ==
  /\ child_ctr' = child_ctr
  /\ all_children_done' = IF child_ctr - 1 = 0 THEN {} ELSE all_children_done

\* variant of decr_and_notify_all_children_done_awaiters: no notify_all
decr_without_notify ==
  /\ child_ctr' = child_ctr - 1
  /\ all_children_done' = all_children_done

\* decr_and_notify_all_children_done_awaiters(): under the child_ctr mutex
decr_and_notify_all_children_done_awaiters ==
  /\ child_ctr' = child_ctr - 1
  /\ all_children_done' = IF child_ctr - 1 = 0 THEN {} ELSE all_children_done

\* wait_for_stop_signal(): the loop condition, evaluated under the mutex by a
\* thread that is not blocked; TRUE: the call returns, FALSE: cnd.wait
StopSignalled == should_stop

\* variant of the loop condition: `*num_children >= 0`
ChildrenOutstanding_OffByOne == child_ctr >= 0

\* wait_all_children_done(): the loop condition `*num_children > 0`
ChildrenOutstanding == child_ctr > 0

\* the process ends when the main thread returns from its shutdown
Running == caller_pc["main"] # "returned"

\* --------------------------------------------- cli.rs / add_src
\* variant of AddSrcSpawn: a spawn error ends the for loop
AddSrcSpawn_AbortsOnError ==
  /\ Running
  /\ next_src <= Len(srcs)
  /\ add_pc = "spawn"
  /\ \/ /\ launch' = [launch EXCEPT ![next_src] = "failed"]
        /\ next_src' = Len(srcs) + 1
        /\ UNCHANGED <<add_pc, child, table_name>>
     \/ /\ child' = [child EXCEPT ![next_src] = "running"]
        /\ table_name' = [table_name EXCEPT ![next_src] = table_src_name(srcs[next_src])]
        /\ add_pc' = "incr"
        /\ UNCHANGED <<launch, next_src>>
  /\ UNCHANGED <<srcs, coordVars, caller_pc, lines_left, pipe, ing_pc, mon_pc,
                 storeVars, enters, leaves, stops>>

\* add_src: Command::new("sh").arg("-c").arg(cmd).spawn()? ; on Err the for
\* loop of noninteractive_mode reports it and continues
AddSrcSpawn ==
  /\ Running
  /\ next_src <= Len(srcs)
  /\ add_pc = "spawn"
  /\ \/ /\ launch' = [launch EXCEPT ![next_src] = "failed"]
        /\ next_src' = next_src + 1
        /\ UNCHANGED <<add_pc, child, table_name>>
     \/ /\ child' = [child EXCEPT ![next_src] = "running"]
        /\ table_name' = [table_name EXCEPT ![next_src] = table_src_name(srcs[next_src])]
        /\ add_pc' = "incr"
        /\ UNCHANGED <<launch, next_src>>
  /\ UNCHANGED <<srcs, coordVars, caller_pc, lines_left, pipe, ing_pc, mon_pc,
                 storeVars, enters, leaves, stops>>

\* add_src: signal.incr()
AddSrcIncr ==
  /\ Running
  /\ next_src <= Len(srcs)
  /\ add_pc = "incr"
  /\ incr
  /\ enters' = [enters EXCEPT ![next_src] = @ + 1]
  /\ add_pc' = "thread"
  /\ UNCHANGED <<srcs, next_src, launch, table_name, should_stop, cnd,
                 all_children_done, caller_pc, procVars, ing_pc, mon_pc,
                 storeVars, leaves, stops>>

\* add_src: thread::spawn(transformation); Ok(())
AddSrcThread ==
  /\ Running
  /\ next_src <= Len(srcs)
  /\ add_pc = "thread"
  /\ ing_pc' = [ing_pc EXCEPT ![next_src] = "new"]
  /\ launch' = [launch EXCEPT ![next_src] = "ok"]
  /\ next_src' = next_src + 1
  /\ add_pc' = "spawn"
  /\ UNCHANGED <<srcs, table_name, coordVars, caller_pc, procVars, mon_pc,
                 storeVars, enters, leaves, stops>>

\* ------------------------------------------------ the child process
\* the child writes a line to its stdout pipe while the reader is open
ChildWrite(s) ==
  /\ Running
  /\ child[s] = "running"
  /\ lines_left > 0
  /\ ing_pc[s] \notin {"new_failed", "done"}
  /\ \E line \in CmdOutput(srcs[s]) : pipe' = [pipe EXCEPT ![s] = Append(@, line)]
  /\ lines_left' = lines_left - 1
  /\ UNCHANGED <<orchVars, coordVars, caller_pc, child, ing_pc, mon_pc,
                 storeVars, enters, leaves, stops>>

\* the child exits on its own (or is killed from outside)
ChildExit(s) ==
  /\ Running
  /\ child[s] = "running"
  /\ child' = [child EXCEPT ![s] = "exited"]
  /\ UNCHANGED <<orchVars, coordVars, caller_pc, lines_left, pipe, ing_pc, mon_pc,
                 storeVars, enters, leaves, stops>>

\* ------------------------------------------- shutdown callers
\* the operator's quit (main thread, after noninteractive_mode returned) or
\* an interrupt (handler thread, at any time): signal.stop()
CallStop(c) ==
  /\ Running
  /\ caller_pc[c] = "idle"
  /\ c = "main" => next_src > Len(srcs)
  /\ stop
  /\ stops' = stops + 1
  /\ caller_pc' = [caller_pc EXCEPT ![c] = "wait"]
  /\ UNCHANGED <<orchVars, child_ctr, all_children_done, procVars, ing_pc,
                 mon_pc, storeVars, enters, leaves>>

\* wait_all_children_done(): one evaluation of the while condition
CallWaitAllChildrenDone(c) ==
  /\ Running
  /\ caller_pc[c] = "wait"
  /\ c \notin all_children_done
  /\ IF ChildrenOutstanding
     THEN /\ all_children_done' = all_children_done \cup {c}
          /\ UNCHANGED caller_pc
     ELSE /\ caller_pc' = [caller_pc EXCEPT ![c] = "returned"]
          /\ UNCHANGED all_children_done
  /\ UNCHANGED <<orchVars, should_stop, child_ctr, cnd, procVars, ing_pc,
                 mon_pc, storeVars, enters, leaves, stops>>

\* Condvar::wait may return without a notification
SpuriousWakeStop(s) ==
  /\ Running
  /\ s \in cnd
  /\ cnd' = cnd \ {s}
  /\ UNCHANGED <<orchVars, should_stop, child_ctr, all_children_done, caller_pc,
                 procVars, ing_pc, mon_pc, storeVars, enters, leaves, stops>>

SpuriousWakeDone(c) ==
  /\ Running
  /\ c \in all_children_done
  /\ all_children_done' = all_children_done \ {c}
  /\ UNCHANGED <<orchVars, should_stop, child_ctr, cnd, caller_pc,
                 procVars, ing_pc, mon_pc, storeVars, enters, leaves, stops>>

\* ----------------------------------------------- monitor thread
\* sig.wait_for_stop_signal(): one evaluation of the while condition
MonitorWaitForStop(s) ==
  /\ Running
  /\ mon_pc[s] = "wait"
  /\ s \notin cnd
  /\ IF StopSignalled
     THEN /\ mon_pc' = [mon_pc EXCEPT ![s] = "kill"]
          /\ UNCHANGED cnd
     ELSE /\ cnd' = cnd \cup {s}
          /\ UNCHANGED mon_pc
  /\ UNCHANGED <<orchVars, should_stop, child_ctr, all_children_done, caller_pc,
                 procVars, ing_pc, storeVars, enters, leaves, stops>>

\* if let Ok(None) = child.try_wait() { child.kill() }
MonitorKill(s) ==
  /\ Running
  /\ mon_pc[s] = "kill"
  /\ child' = [child EXCEPT ![s] = IF @ = "running" THEN "killed" ELSE @]
  /\ mon_pc' = [mon_pc EXCEPT ![s] = "leave"]
  /\ UNCHANGED <<orchVars, coordVars, caller_pc, lines_left, pipe, ing_pc,
                 storeVars, enters, leaves, stops>>

\* sig.decr_and_notify_all_children_done_awaiters()
MonitorLeave(s) ==
  /\ Running
  /\ mon_pc[s] = "leave"
  /\ decr_and_notify_all_children_done_awaiters
  /\ leaves' = [leaves EXCEPT ![s] = Append(@, "monitor")]
  /\ mon_pc' = [mon_pc EXCEPT ![s] = "done"]
  /\ UNCHANGED <<orchVars, should_stop, cnd, caller_pc, procVars, ing_pc,
                 storeVars, enters, stops>>

\* ------------------------------------------ EvolvingWideTable::new
\* CREATE TABLE IF NOT EXISTS {table_name} ({RAW_UNPARSABLE_COL} TEXT)
create_table(c, tbl) ==
  IF c.tables[tbl].exists THEN c
  ELSE [c EXCEPT !.tables[tbl] =
          [exists |-> TRUE, cols |-> {RAW_UNPARSABLE_COL}, rows |-> <<>>]]

\* PRAGMA table_info({table_name}): the column names, into col_lookup
table_info(c, tbl) == c.tables[tbl].cols

\* ------------------------------------------------ insert_data
\* the keys of the record that col_lookup does not hold
missing_cols(lookup, rec) == {k \in DOMAIN rec : k \notin lookup}

\* the first loop of insert_data: every missing key is pushed to new_cols and
\* inserted into col_lookup
lookup_after_scan(lookup, rec) == lookup \cup missing_cols(lookup, rec)

\* variant of attempt_with_retry: the result of f is not looked at
retry_step_ignores_error(ok, att, max_attempts) == "ok"

\* attempt_with_retry, after a call of f: "ok" (return the result), "retry"
\* (attempt += 1, sleep, call f again) or "err" (return the last error)
retry_step(ok, att, max_attempts) ==
  IF ok THEN "ok"
  ELSE IF att < max_attempts THEN "retry" ELSE "err"

\* transient failures the engine may still inject into a batch
BusyChoices(stmts) ==
  {0} \cup (IF faults < MaxFaults THEN BusyPoints(stmts) ELSE {})

\* --------------------------------------------- ingestion thread
\* variant of IngestNew: the monitor is spawned before the store is opened,
\* so it also runs when the store cannot be opened
IngestNew_MonitorFirst(s) ==
  /\ Running
  /\ ing_pc[s] = "new"
  /\ conn_lock = 0
  /\ mon_pc' = [mon_pc EXCEPT ![s] = "wait"]
  /\ \/ /\ ~ValidTableName(table_name[s]) \/ faults < MaxFaults
        /\ faults' = IF ValidTableName(table_name[s]) THEN faults + 1 ELSE faults
        /\ faulted' = [faulted EXCEPT ![s] = @ \/ ValidTableName(table_name[s])]
        /\ ing_pc' = [ing_pc EXCEPT ![s] = "new_failed"]
        /\ UNCHANGED <<conn, col_lookup>>
     \/ /\ ValidTableName(table_name[s])
        /\ conn' = create_table(conn, table_name[s])
        /\ col_lookup' = [col_lookup EXCEPT ![s] = table_info(conn', table_name[s])]
        /\ ing_pc' = [ing_pc EXCEPT ![s] = "read"]
        /\ UNCHANGED <<faults, faulted>>
  /\ UNCHANGED <<orchVars, coordVars, caller_pc, procVars, data, new_cols,
                 attempt, conn_lock, results, keys_seen, keys_ok, read_log,
                 mig_log, ins_log, enters, leaves, stops>>

\* transformation: EvolvingWideTable::new(src_name, shared_connection), under
\* the connection lock; Ok: spawn the monitor and enter the read loop
IngestNew(s) ==
  /\ Running
  /\ ing_pc[s] = "new"
  /\ conn_lock = 0
  /\ \/ /\ ~ValidTableName(table_name[s]) \/ faults < MaxFaults
        /\ faults' = IF ValidTableName(table_name[s]) THEN faults + 1 ELSE faults
        /\ faulted' = [faulted EXCEPT ![s] = @ \/ ValidTableName(table_name[s])]
        /\ ing_pc' = [ing_pc EXCEPT ![s] = "new_failed"]
        /\ UNCHANGED <<conn, col_lookup, mon_pc>>
     \/ /\ ValidTableName(table_name[s])
        /\ conn' = create_table(conn, table_name[s])
        /\ col_lookup' = [col_lookup EXCEPT ![s] = table_info(conn', table_name[s])]
        /\ ing_pc' = [ing_pc EXCEPT ![s] = "read"]
        /\ mon_pc' = [mon_pc EXCEPT ![s] = "wait"]
        /\ UNCHANGED <<faults, faulted>>
  /\ UNCHANGED <<orchVars, coordVars, caller_pc, procVars, data, new_cols,
                 attempt, conn_lock, results, keys_seen, keys_ok, read_log,
                 mig_log, ins_log, enters, leaves, stops>>

\* transformation, Err arm: signal.decr_and_notify_all_children_done_awaiters(); return
IngestNewFailed(s) ==
  /\ Running
  /\ ing_pc[s] = "new_failed"
  /\ decr_and_notify_all_children_done_awaiters
  /\ leaves' = [leaves EXCEPT ![s] = Append(@, "ingestion")]
  /\ ing_pc' = [ing_pc EXCEPT ![s] = "done"]
  /\ UNCHANGED <<orchVars, should_stop, cnd, caller_pc, procVars, mon_pc,
                 storeVars, enters, stops>>

\* variant of line_record: a line that cannot be read is stored as a raw line
line_record_bad_line_stored(line) ==
  LET p == from_str(line)
  IN IF p.ok
     THEN (IF p.val.t = "obj"
           THEN [skip |-> FALSE, rec |-> flatten_json(p.val)]
           ELSE [skip |-> TRUE, rec |-> EmptyMap])
     ELSE [skip |-> FALSE, rec |-> MapInsert(EmptyMap, RAW_UNPARSABLE_COL, line)]

\* the record insert_data is called with for a line, or "skip"
line_record(line) ==
  IF line = BadUtf8Line THEN [skip |-> TRUE, rec |-> EmptyMap]
  ELSE LET p == from_str(line)
       IN IF p.ok
          THEN (IF p.val.t = "obj"
                THEN [skip |-> FALSE, rec |-> flatten_json(p.val)]
                ELSE [skip |-> TRUE, rec |-> EmptyMap])
          ELSE [skip |-> FALSE, rec |-> MapInsert(EmptyMap, RAW_UNPARSABLE_COL, line)]

\* transformation: one iteration of `for line_res in lines` up to the lock of
\* insert_data, or the end of the loop at end-of-input
IngestRead(s) ==
  /\ Running
  /\ ing_pc[s] = "read"
  /\ IF pipe[s] # <<>>
     THEN LET lr == line_record(Head(pipe[s]))
          IN /\ pipe' = [pipe EXCEPT ![s] = Tail(@)]
             /\ read_log' = IF Head(pipe[s]) = BadUtf8Line THEN read_log
                             ELSE [read_log EXCEPT ![s] =
                                     Append(@, [line |-> Head(pipe[s]),
                                                call |-> ~lr.skip, rec |-> lr.rec])]
             /\ IF lr.skip
                THEN UNCHANGED <<ing_pc, data, new_cols, col_lookup, keys_seen>>
                ELSE /\ data' = [data EXCEPT ![s] = lr.rec]
                     /\ keys_seen' = [keys_seen EXCEPT ![s] = @ \cup DOMAIN lr.rec]
                     /\ \E order \in Orderings(missing_cols(col_lookup[s], lr.rec)) :
                          new_cols' = [new_cols EXCEPT ![s] = order]
                     /\ col_lookup' = [col_lookup EXCEPT ![s] =
                                         lookup_after_scan(@, lr.rec)]
                     /\ ing_pc' = [ing_pc EXCEPT ![s] = "lock"]
     ELSE /\ child[s] # "running"
          /\ ing_pc' = [ing_pc EXCEPT ![s] = "join"]
          /\ UNCHANGED <<pipe, data, new_cols, col_lookup, keys_seen, read_log>>
  /\ UNCHANGED <<orchVars, coordVars, caller_pc, child, lines_left, mon_pc,
                 attempt, conn_lock, conn, faults, results, keys_ok, mig_log,
                 ins_log, faulted, enters, leaves, stops>>

\* variant of InsertLock: the call goes on without taking the connection lock
InsertLock_NoLock(s) ==
  /\ Running
  /\ ing_pc[s] = "lock"
  /\ conn_lock' = conn_lock
  /\ attempt' = [attempt EXCEPT ![s] = 0]
  /\ ing_pc' = [ing_pc EXCEPT ![s] = "alter"]
  /\ mig_log' = [mig_log EXCEPT ![s] = <<>>]
  /\ ins_log' = [ins_log EXCEPT ![s] = <<>>]
  /\ UNCHANGED <<orchVars, coordVars, caller_pc, procVars, mon_pc, col_lookup,
                 data, new_cols, conn, faults, results, keys_seen, keys_ok,
                 read_log, faulted, enters, leaves, stops>>

\* insert_data: shared_connection.lock()
InsertLock(s) ==
  /\ Running
  /\ ing_pc[s] = "lock"
  /\ conn_lock = 0
  /\ conn_lock' = s
  /\ attempt' = [attempt EXCEPT ![s] = 0]
  /\ ing_pc' = [ing_pc EXCEPT ![s] = "alter"]
  /\ mig_log' = [mig_log EXCEPT ![s] = <<>>]
  /\ ins_log' = [ins_log EXCEPT ![s] = <<>>]
  /\ UNCHANGED <<orchVars, coordVars, caller_pc, procVars, mon_pc, col_lookup,
                 data, new_cols, conn, faults, results, keys_seen, keys_ok,
                 read_log, faulted, enters, leaves, stops>>

\* insert_data: one call of schema_alter_closure by attempt_with_retry
MigrationAttempt(s) ==
  /\ Running
  /\ ing_pc[s] = "alter"
  /\ \E busyAt \in BusyChoices(batch_stmt(table_name[s], new_cols[s])) :
       LET r == execute_batch(batch_stmt(table_name[s], new_cols[s]), conn, busyAt)
           step == retry_step(r.ok, attempt[s], MAX_DB_WRITE_ATTEMPTS)
       IN /\ conn' = r.conn
          /\ faults' = IF busyAt = 0 THEN faults ELSE faults + 1
          /\ attempt' = [attempt EXCEPT ![s] = IF step = "retry" THEN @ + 1 ELSE 0]
          /\ ing_pc' = [ing_pc EXCEPT ![s] =
               CASE step = "ok" -> "insert" [] step = "retry" -> "alter" [] OTHER -> "read"]
          /\ conn_lock' = IF step = "err" THEN 0 ELSE conn_lock
          /\ results' = IF step = "err"
                        THEN [results EXCEPT ![s] = Append(@, "SchemaManipulationError")]
                        ELSE results
          /\ data' = IF step = "err" THEN [data EXCEPT ![s] = EmptyMap] ELSE data
          /\ new_cols' = IF step = "retry" THEN new_cols
                         ELSE [new_cols EXCEPT ![s] = <<>>]
          /\ mig_log' = [mig_log EXCEPT ![s] = Append(@, r.ok)]
          /\ faulted' = [faulted EXCEPT ![s] = @ \/ busyAt # 0]
  /\ UNCHANGED <<orchVars, coordVars, caller_pc, procVars, mon_pc, col_lookup,
                 keys_seen, keys_ok, read_log, ins_log, enters, leaves, stops>>

\* variant of RowInsertAttempt: an error of the row insert ends the read loop
RowInsertAttempt_ErrorEndsTask(s) ==
  /\ Running
  /\ ing_pc[s] = "insert"
  /\ \E busyAt \in BusyChoices(<<insert_stmt(table_name[s], col_lookup[s], data[s])>>) :
       LET r == execute_batch(<<insert_stmt(table_name[s], col_lookup[s], data[s])>>,
                              conn, busyAt)
           step == retry_step(r.ok, attempt[s], MAX_DB_WRITE_ATTEMPTS)
       IN /\ conn' = r.conn
          /\ faults' = IF busyAt = 0 THEN faults ELSE faults + 1
          /\ attempt' = [attempt EXCEPT ![s] = IF step = "retry" THEN @ + 1 ELSE 0]
          /\ ing_pc' = [ing_pc EXCEPT ![s] =
               CASE step = "retry" -> "insert" [] step = "ok" -> "read" [] OTHER -> "join"]
          /\ conn_lock' = IF step = "retry" THEN conn_lock ELSE 0
          /\ results' = CASE step = "ok" -> [results EXCEPT ![s] = Append(@, "Ok")]
                          [] step = "err" ->
                               [results EXCEPT ![s] = Append(@, "RecordInsertionError")]
                          [] OTHER -> results
          /\ keys_ok' = IF step = "ok"
                        THEN [keys_ok EXCEPT ![s] = @ \cup DOMAIN data[s]]
                        ELSE keys_ok
          /\ data' = IF step = "retry" THEN data ELSE [data EXCEPT ![s] = EmptyMap]
          /\ ins_log' = [ins_log EXCEPT ![s] = Append(@, r.ok)]
          /\ faulted' = [faulted EXCEPT ![s] = @ \/ busyAt # 0]
  /\ UNCHANGED <<orchVars, coordVars, caller_pc, procVars, mon_pc, col_lookup,
                 new_cols, keys_seen, read_log, mig_log, enters, leaves, stops>>

\* insert_data: one call of insertion_closure by attempt_with_retry
RowInsertAttempt(s) ==
  /\ Running
  /\ ing_pc[s] = "insert"
  /\ \E busyAt \in BusyChoices(<<insert_stmt(table_name[s], col_lookup[s], data[s])>>) :
       LET r == execute_batch(<<insert_stmt(table_name[s], col_lookup[s], data[s])>>,
                              conn, busyAt)
           step == retry_step(r.ok, attempt[s], MAX_DB_WRITE_ATTEMPTS)
       IN /\ conn' = r.conn
          /\ faults' = IF busyAt = 0 THEN faults ELSE faults + 1
          /\ attempt' = [attempt EXCEPT ![s] = IF step = "retry" THEN @ + 1 ELSE 0]
          /\ ing_pc' = [ing_pc EXCEPT ![s] = IF step = "retry" THEN "insert" ELSE "read"]
          /\ conn_lock' = IF step = "retry" THEN conn_lock ELSE 0
          /\ results' = CASE step = "ok" -> [results EXCEPT ![s] = Append(@, "Ok")]
                          [] step = "err" ->
                               [results EXCEPT ![s] = Append(@, "RecordInsertionError")]
                          [] OTHER -> results
          /\ keys_ok' = IF step = "ok"
                        THEN [keys_ok EXCEPT ![s] = @ \cup DOMAIN data[s]]
                        ELSE keys_ok
          /\ data' = IF step = "retry" THEN data ELSE [data EXCEPT ![s] = EmptyMap]
          /\ ins_log' = [ins_log EXCEPT ![s] = Append(@, r.ok)]
          /\ faulted' = [faulted EXCEPT ![s] = @ \/ busyAt # 0]
  /\ UNCHANGED <<orchVars, coordVars, caller_pc, procVars, mon_pc, col_lookup,
                 new_cols, keys_seen, read_log, mig_log, enters, leaves, stops>>

\* transformation: monitor.join()
IngestJoin(s) ==
  /\ Running
  /\ ing_pc[s] = "join"
  /\ mon_pc[s] = "done"
  /\ ing_pc' = [ing_pc EXCEPT ![s] = "done"]
  /\ UNCHANGED <<orchVars, coordVars, caller_pc, procVars, mon_pc, storeVars,
                 enters, leaves, stops>>

\* ------------------------------------------------------- specification
\* the steps of the threads of source s and of its child process
SourceStep(s) ==
  \/ ChildWrite(s)
  \/ ChildExit(s)
  \/ SpuriousWakeStop(s)
  \/ MonitorWaitForStop(s)
  \/ MonitorKill(s)
  \/ MonitorLeave(s)
  \/ IngestNew(s)
  \/ IngestNewFailed(s)
  \/ IngestRead(s)
  \/ InsertLock(s)
  \/ MigrationAttempt(s)
  \/ RowInsertAttempt(s)
  \/ IngestJoin(s)

\* the steps of the monitor thread and of the ingestion thread of source s
MonitorStep(s) ==
  \/ MonitorWaitForStop(s)
  \/ MonitorKill(s)
  \/ MonitorLeave(s)

IngestStep(s) ==
  \/ IngestNew(s)
  \/ IngestNewFailed(s)
  \/ IngestRead(s)
  \/ InsertLock(s)
  \/ MigrationAttempt(s)
  \/ RowInsertAttempt(s)
  \/ IngestJoin(s)

\* the steps of the orchestrator
LaunchStep ==
  \/ AddSrcSpawn
  \/ AddSrcIncr
  \/ AddSrcThread

\* the steps of a thread that shuts the run down
ShutdownStep(c) ==
  \/ CallStop(c)
  \/ CallWaitAllChildrenDone(c)
  \/ SpuriousWakeDone(c)

Next ==
  \/ LaunchStep
  \/ \E c \in Callers : ShutdownStep(c)
  \/ \E s \in SrcIds : SourceStep(s)

Spec == Init /\ [][Next]_vars

\* Scheduling: every thread of the program that can take a step eventually
\* takes one (the main thread launching, a caller inside
\* wait_all_children_done, each monitor and each ingestion thread).  Nothing
\* is assumed of the operator (stop), of the child processes (write, exit)
\* or of spurious wake-ups.
Fairness ==
  /\ WF_vars(LaunchStep)
  /\ \A c \in Callers : WF_vars(CallWaitAllChildrenDone(c))
  /\ \A s \in SrcIds : WF_vars(MonitorStep(s)) /\ WF_vars(IngestStep(s))

\* the runs checked under it: a command with a table and one without
FairInit == InitWith({<<CmdTailF, CmdPipe>>}, MaxLines)

FairSpec == FairInit /\ [][Next]_vars /\ Fairness

\* runs that exercise the store: one command per run, shut down by the main
\* thread
StoreInit == InitWith(StoreSrcLists, MaxStoreLines)

StoreNext ==
  \/ LaunchStep
  \/ ShutdownStep("main")
  \/ \E s \in SrcIds : SourceStep(s)

StoreSpec == StoreInit /\ [][StoreNext]_vars

\* runs of two sources that write to two different tables over the shared
\* connection, shut down by the main thread
IsoInit == InitWith({<<CmdTailDashF, CmdCat>>}, MaxIsoLines)

IsoSpec == IsoInit /\ [][StoreNext]_vars

\* runs of two sources that write to the same table: the same command added
\* twice, and two commands with the same sanitised name
SharedInit ==
  InitWith({<<CmdTailDashF, CmdTailDashF>>, <<CmdTailF, CmdTailDashF>>}, MaxIsoLines)

SharedSpec == SharedInit /\ [][StoreNext]_vars

\* runs that exercise flatten_json: one command printing objects with nested
\* objects and arrays, empty containers, every kind of scalar, and two fields
\* with the same key path
FlatInit == InitWith({<<CmdCatA>>}, MaxFlatLines)

FlatSpec == FlatInit /\ [][StoreNext]_vars

\* ================================================================ claims
Launched(s) == launch[s] = "ok"
InsertInProgress(s) == ing_pc[s] \in {"lock", "alter", "insert"}

\* C1 (safety part): per source the counter is incremented at most once and
\* before the ingestion thread exists, decremented at most once and never
\* before the increment; the decrement is the ingestion thread's exactly when
\* the store could not be opened (and then no monitor was started) and the
\* monitor's otherwise; a thread that has ended has left one decrement behind.
C1_Balanced ==
  \A s \in SrcIds :
    /\ enters[s] <= 1
    /\ ing_pc[s] # "none" => enters[s] = 1
    /\ Len(leaves[s]) <= enters[s]
    /\ ing_pc[s] = "new_failed" => mon_pc[s] = "none" /\ leaves[s] = <<>>
    /\ leaves[s] = <<"ingestion">> <=> ing_pc[s] = "done" /\ mon_pc[s] = "none"
    /\ leaves[s] = <<"monitor">> <=> mon_pc[s] = "done"
    /\ ing_pc[s] = "done" => Len(leaves[s]) = 1

\* C1 (progress part): once stop has been signalled, a launched source that
\* has not been decremented is never stuck: its monitor, if it has one, can
\* take a step; if it has none yet, its ingestion thread is opening the store
\* and can take a step, or waits for the connection lock of a thread that can.
\* When the process ends no launched source is undecremented.
C1_NotStuck ==
  \A s \in SrcIds :
    (should_stop /\ Launched(s) /\ leaves[s] = <<>>) =>
      /\ Running
      /\ IF mon_pc[s] # "none"
         THEN ENABLED MonitorStep(s)
         ELSE /\ ing_pc[s] \in {"new", "new_failed"}
              /\ \/ ENABLED IngestStep(s)
                 \/ \E u \in SrcIds : conn_lock = u /\ ENABLED IngestStep(u)

\* C1: both hold in every state.
C1_ExactlyOnce == C1_Balanced /\ C1_NotStuck

\* one source left through its ingestion thread, another through its monitor
C1_Witness ==
  /\ should_stop
  /\ \E s1, s2 \in SrcIds : leaves[s1] = <<"ingestion">> /\ leaves[s2] = <<"monitor">>

\* every listed command has been handled and every source that entered has left
AllLeft ==
  /\ next_src > Len(srcs)
  /\ \A s \in SrcIds : enters[s] = 1 => leaves[s] # <<>>

\* C2: once stop has been called, eventually every source that entered has
\* left and the counter is 0, and a caller blocked in wait_all_children_done
\* is eventually released (it returns, or the main thread returned first and
\* the process ended).
C2_ShutdownLiveness ==
  /\ should_stop ~> (AllLeft /\ child_ctr = 0)
  /\ \A c \in Callers :
       (c \in all_children_done) ~> (caller_pc[c] = "returned" \/ ~Running)

\* a caller blocked on two outstanding sources after stop
C2_Witness ==
  /\ should_stop
  /\ child_ctr = 2
  /\ all_children_done = Callers

\* C3 as claimed: whenever the counter is 0 after a source entered, no
\* ingestion thread has a line of its stream left to read or is inside
\* insert_data.
C3_ZeroMeansIngestionOver ==
  (child_ctr = 0 /\ \E s \in SrcIds : enters[s] > 0)
    => \A s \in SrcIds :
         /\ ~InsertInProgress(s)
         /\ ing_pc[s] = "read" => pipe[s] = <<>>

\* C4 as claimed: after the child of a source whose store is open has exited
\* on its own, the ingestion thread ends and the source's decrement happens
\* (unless the process ends first), whether or not stop is ever signalled.
C4_ExitEndsSource ==
  \A s \in SrcIds :
    (child[s] = "exited" /\ mon_pc[s] # "none")
      ~> ((ing_pc[s] = "done" /\ leaves[s] # <<>>) \/ ~Running)

\* C5: the outstanding-children counter is never negative.
C5_CounterNonNegative == child_ctr >= 0

\* the counter is back at 0 after a source left on each of the two paths
C5_Witness ==
  /\ child_ctr = 0
  /\ \E s1, s2 \in SrcIds : leaves[s1] = <<"ingestion">> /\ leaves[s2] = <<"monitor">>

\* C6: the stop flag never goes back to false, and a stop() call after the
\* first changes neither the flag, nor the counter, nor the threads blocked
\* on either condition variable (it releases nobody the first had not).
C6_StopOneWayIdempotent ==
  [][/\ should_stop => should_stop'
     /\ (stops >= 1 /\ stops' = stops + 1) => UNCHANGED coordVars]_vars

\* stop() has been called twice
C6_Witness == stops = 2 /\ should_stop

\* C7: no thread is blocked in wait_for_stop_signal while the flag is true:
\* stop() releases every waiter blocked before it, and a waiter that arrives
\* after it does not block.
C7_NoLostStopWakeup == should_stop => cnd = {}

\* both monitors are past wait_for_stop_signal
C7_Witness ==
  /\ should_stop
  /\ \A s \in SrcIds : mon_pc[s] = "kill"

\* C8: wait_all_children_done returns only when the counter is 0, blocks only
\* when the counter is positive, and the decrement that takes the counter
\* from a positive value to 0 releases every thread blocked in it.
C8_AwaitAllDone ==
  [][/\ \A c \in Callers :
          (caller_pc[c] = "wait" /\ caller_pc'[c] = "returned") => child_ctr = 0
     /\ \A c \in Callers :
          (c \notin all_children_done /\ c \in all_children_done') => child_ctr > 0
     /\ (child_ctr > 0 /\ child_ctr' = 0) => all_children_done' = {}]_vars

\* a caller is blocked and the last decrement is about to happen
C8_Witness ==
  /\ all_children_done # {}
  /\ child_ctr = 1
  /\ \E s \in SrcIds : mon_pc[s] = "leave"

\* the stores opened on table t, and the history of their insert_data calls
StoresOf(t) == {s \in SrcIds : mon_pc[s] # "none" /\ table_name[s] = t}
SeenKeys(t) == UNION {keys_seen[s] : s \in StoresOf(t)}
OkKeys(t) == UNION {keys_ok[s] : s \in StoresOf(t)}
Cols(t) == conn.tables[t].cols
Quiet(t) == \A s \in StoresOf(t) : ~InsertInProgress(s)

\* C9 as claimed: between insert_data calls the column set of a table is the
\* fallback column plus the union of the keys of the records inserted into it
\* (whether that is read as the records insert_data was called with or as the
\* records it returned Ok for).
C9_ColumnsAreUnion ==
  \A t \in TableNames :
    (conn.tables[t].exists /\ Quiet(t)) =>
      \/ Cols(t) = {RAW_UNPARSABLE_COL} \cup SeenKeys(t)
      \/ Cols(t) = {RAW_UNPARSABLE_COL} \cup OkKeys(t)

\* C9, the part that holds whatever insert_data returned: the column set holds
\* the fallback column and every key of a record insert_data returned Ok for, holds nothing but the fallback column
\* and keys of records insert_data was called with (so it equals their union
\* when every call returned Ok), and no step removes a column.
C9_Between ==
  \A t \in TableNames :
    conn.tables[t].exists =>
      /\ {RAW_UNPARSABLE_COL} \cup OkKeys(t) \subseteq Cols(t)
      /\ Cols(t) \subseteq {RAW_UNPARSABLE_COL} \cup SeenKeys(t)

C9_ColumnsGrow ==
  /\ []C9_Between
  /\ [][\A t \in TableNames : Cols(t) \subseteq conn'.tables[t].cols]_vars

\* every call returned Ok: three records stored, the columns are the fallback
\* column, x and y
C9_Witness ==
  \E s \in SrcIds :
    /\ results[s] = <<"Ok", "Ok", "Ok">>
    /\ Cols(table_name[s]) = {RAW_UNPARSABLE_COL, "x", "y"}
    /\ keys_ok[s] = {RAW_UNPARSABLE_COL, "x", "y"}

\* C10 as claimed: between insert_data calls, whatever they returned, every
\* name of a store's col_lookup is a column of its table.
C10_LookupMirrorsCatalog ==
  \A s \in SrcIds :
    (mon_pc[s] # "none" /\ ~InsertInProgress(s)) =>
      col_lookup[s] \subseteq Cols(table_name[s])

\* C11 as claimed: every line read as Ok(line) has led to one insert_data
\* call: with the flattened record when the line parses as a JSON object,
\* and with the one-field record of the raw line otherwise (no JSON, or a
\* JSON value that is no object).
C11_EveryLineInserted ==
  \A s \in SrcIds :
    \A i \in 1..Len(read_log[s]) :
      LET e == read_log[s][i]
          p == from_str(e.line)
      IN /\ e.call
         /\ e.rec = IF p.ok /\ p.val.t = "obj"
                    THEN flatten_json(p.val)
                    ELSE MapInsert(EmptyMap, RAW_UNPARSABLE_COL, e.line)

\* the rows of table t in insertion order, and a row's value in a column it
\* was not given: NULL
Rows(t) == conn.tables[t].rows
IsNull(row, col) == col \notin DOMAIN row
\* the lines source s has read as Ok(line), in order
LinesRead(s) == [i \in 1..Len(read_log[s]) |-> read_log[s][i].line]

\* C12: once a source that printed {"x":1}, {"y":2}, not json has had its
\* three lines inserted with no storage failure, its table has the columns x,
\* y and raw_unparsable_line and the three rows (x=1, y NULL, fallback NULL),
\* (x NULL, y=2, fallback NULL), (x NULL, y NULL, fallback="not json").
C12_EndToEnd ==
  \A s \in SrcIds :
    (/\ LinesRead(s) = <<LineX, LineY, LineNotJson>>
     /\ Len(results[s]) = 3
     /\ faults = 0)
    => /\ Cols(table_name[s]) = {"x", "y", RAW_UNPARSABLE_COL}
       /\ Len(Rows(table_name[s])) = 3
       /\ LET r1 == Rows(table_name[s])[1]
              r2 == Rows(table_name[s])[2]
              r3 == Rows(table_name[s])[3]
          IN /\ ~IsNull(r1, "x") /\ r1["x"] = "1"
             /\ IsNull(r1, "y") /\ IsNull(r1, RAW_UNPARSABLE_COL)
             /\ IsNull(r2, "x") /\ ~IsNull(r2, "y") /\ r2["y"] = "2"
             /\ IsNull(r2, RAW_UNPARSABLE_COL)
             /\ IsNull(r3, "x") /\ IsNull(r3, "y")
             /\ ~IsNull(r3, RAW_UNPARSABLE_COL)
             /\ r3[RAW_UNPARSABLE_COL] = "not json"

\* the three lines have been read in this order and their inserts returned
C12_Witness ==
  \E s \in SrcIds :
    /\ LinesRead(s) = <<LineX, LineY, LineNotJson>>
    /\ results[s] = <<"Ok", "Ok", "Ok">>
    /\ faults = 0

\* C13: the step in which insert_data returns Ok appends one row to the
\* table, holding exactly the record's keys with the record's values (every
\* other column of the table reads NULL in it); no step changes or removes a
\* row stored earlier; and a step that adds a column leaves every row stored
\* earlier NULL in that column.
C13_InsertFrame ==
  [][/\ \A s \in SrcIds :
          results'[s] = Append(results[s], "Ok") =>
            /\ Rows(table_name[s])' = Append(Rows(table_name[s]), data[s])
            /\ DOMAIN data[s] \subseteq Cols(table_name[s])
            /\ Cols(table_name[s])' = Cols(table_name[s])
     /\ \A t \in TableNames :
          /\ Len(Rows(t)') >= Len(Rows(t))
          /\ \A i \in 1..Len(Rows(t)) : Rows(t)'[i] = Rows(t)[i]
          /\ \A c \in Cols(t)' \ Cols(t) :
               \A i \in 1..Len(Rows(t)') : IsNull(Rows(t)'[i], c)]_vars

\* a second record brought a new column: the first row is NULL in it
C13_Witness ==
  \E s \in SrcIds :
    /\ results[s] = <<"Ok", "Ok">>
    /\ Len(Rows(table_name[s])) = 2
    /\ "y" \in Cols(table_name[s])
    /\ IsNull(Rows(table_name[s])[1], "y")
    /\ ~IsNull(Rows(table_name[s])[2], "y")

\* C14 as claimed: in one insert_data call the migration batch is executed at
\* most MAX_DB_WRITE_ATTEMPTS times, the first execution included, and so is
\* the row insert.
C14_RetryBound ==
  \A s \in SrcIds :
    /\ Len(mig_log[s]) <= MAX_DB_WRITE_ATTEMPTS
    /\ Len(ins_log[s]) <= MAX_DB_WRITE_ATTEMPTS

\* the last element of a non-empty sequence; a log of attempts that all failed
Last(q) == q[Len(q)]
AllFailed(q) == \A i \in 1..Len(q) : ~q[i]
Recovered(q) == q # <<>> /\ Last(q)

\* C15: attempt_with_retry stops at the first attempt that succeeds; a step
\* that succeeded on some attempt surfaces no error, whatever failed before;
\* insert_data returns SchemaManipulationError exactly when every attempt of
\* the migration failed, and then the row insert was not attempted; it
\* returns RecordInsertionError exactly when the migration succeeded and
\* every attempt of the row insert failed; it returns Ok otherwise.
C15_RetryOutcome ==
  \A s \in SrcIds :
    /\ \A i \in 1..(Len(mig_log[s]) - 1) : ~mig_log[s][i]
    /\ \A i \in 1..(Len(ins_log[s]) - 1) : ~ins_log[s][i]
    /\ ins_log[s] # <<>> => Recovered(mig_log[s])
    /\ (~InsertInProgress(s) /\ results[s] # <<>>) =>
         /\ Last(results[s]) = "Ok"
              <=> (Recovered(mig_log[s]) /\ Recovered(ins_log[s]))
         /\ Last(results[s]) = "SchemaManipulationError"
              <=> (mig_log[s] # <<>> /\ AllFailed(mig_log[s]) /\ ins_log[s] = <<>>)
         /\ Last(results[s]) = "RecordInsertionError"
              <=> (Recovered(mig_log[s]) /\ ins_log[s] # <<>> /\ AllFailed(ins_log[s]))

\* a row insert failed once, succeeded on its second attempt, and the call
\* returned Ok
C15_Witness ==
  \E s \in SrcIds :
    /\ ~InsertInProgress(s)
    /\ ins_log[s] = <<FALSE, TRUE>>
    /\ results[s] # <<>> /\ Last(results[s]) = "Ok"

\* C16 as claimed: a source that has a table of its own and none of whose
\* statements met a failure has every insert_data call return Ok, whatever
\* failed in the other sources.
C16_SourceIsolation ==
  \A s \in SrcIds :
    (/\ ~faulted[s]
     /\ \A u \in SrcIds \ {s} : table_name[u] # table_name[s])
    => \A i \in 1..Len(results[s]) : results[s][i] = "Ok"

\* the insert_data calls source s has made, in the order of its lines
IsCall(e) == e.call
Calls(s) == SelectSeq(read_log[s], IsCall)
\* the records of calls i.. that returned Ok, in order
RECURSIVE OkRecs(_, _, _)
OkRecs(calls, res, i) ==
  IF i > Len(res) \/ i > Len(calls) THEN <<>>
  ELSE (IF res[i] = "Ok" THEN <<calls[i].rec>> ELSE <<>>) \o OkRecs(calls, res, i + 1)

\* C17: within a source that has its table to itself, every insert_data call
\* but the one in progress has returned (the call for a line starts after the
\* call for the line before it returned), and the rows of the table are the
\* records of the calls that returned Ok, in the order their lines were read.
C17_InOrder ==
  \A s \in SrcIds :
    (/\ mon_pc[s] # "none"
     /\ \A u \in SrcIds \ {s} : table_name[u] # table_name[s])
    => /\ Len(results[s]) =
            Len(Calls(s)) - (IF InsertInProgress(s) THEN 1 ELSE 0)
       /\ Rows(table_name[s]) = OkRecs(Calls(s), results[s], 1)

\* three lines read and stored, the line that is no JSON first
C17_Witness ==
  \E s \in SrcIds :
    /\ LinesRead(s) = <<LineNotJson, LineY, LineX>>
    /\ Len(Rows(table_name[s])) = 3

\* C18: while the row insert of an insert_data call is about to be executed
\* or has been attempted, the migration of that call has succeeded (its last
\* attempt returned Ok) and every column the INSERT names is a column of the
\* table; a call whose migration failed makes no row-insert attempt.
C18_MigrationBeforeInsert ==
  \A s \in SrcIds :
    /\ ing_pc[s] = "insert" =>
         /\ Recovered(mig_log[s])
         /\ DOMAIN insert_stmt(table_name[s], col_lookup[s], data[s]).row
              \subseteq Cols(table_name[s])
    /\ ins_log[s] # <<>> => Recovered(mig_log[s])
    /\ (mig_log[s] # <<>> /\ AllFailed(mig_log[s])) =>
         (ing_pc[s] # "insert" /\ ins_log[s] = <<>>)

\* the row insert of a nested record that brought three new columns is about
\* to run
C18_Witness ==
  \E s \in SrcIds :
    /\ ing_pc[s] = "insert"
    /\ DOMAIN data[s] = {"a.b", "c[0]", "c[1]"}
    /\ DOMAIN data[s] \subseteq Cols(table_name[s])

\* C19 as claimed: when the main thread has returned from
\* wait_all_children_done after its stop, no child process of a launched
\* source is still running.
C19_NoChildOutlivesShutdown ==
  caller_pc["main"] = "returned" =>
    \A s \in SrcIds : Launched(s) => child[s] # "running"

\* C20: a source whose spawn failed has no increment, no child, no ingestion
\* thread and no monitor; the step in which the spawn fails leaves the counter
\* unchanged and moves the orchestrator to the next command of the list; and
\* while commands remain and the process runs, the orchestrator can go on
\* launching.
C20_SpawnFailure ==
  /\ [](\A s \in SrcIds :
          launch[s] = "failed" =>
            /\ enters[s] = 0 /\ leaves[s] = <<>>
            /\ child[s] = "none" /\ ing_pc[s] = "none" /\ mon_pc[s] = "none")
  /\ []((Running /\ next_src <= Len(srcs)) => ENABLED LaunchStep)
  /\ [][\A s \in SrcIds :
          (launch[s] # "failed" /\ launch'[s] = "failed") =>
            /\ child_ctr' = child_ctr
            /\ next_src' = s + 1
            /\ add_pc' = "spawn"
            /\ UNCHANGED <<ing_pc, mon_pc, child>>]_vars

\* the first spawn failed and the second source was launched all the same
C20_Witness ==
  /\ launch[1] = "failed"
  /\ launch[2] = "ok"
  /\ ing_pc[2] # "none"

\* C21: the step in which insert_data returns an error puts the ingestion
\* thread back in its read loop with the unread lines untouched; the thread
\* leaves the loop only at end-of-input (no unread line, child gone); and
\* while a line is unread the thread can read it.
C21_ErrorDoesNotEndTask ==
  /\ [][\A s \in SrcIds :
          (Len(results'[s]) = Len(results[s]) + 1 /\ Last(results'[s]) # "Ok")
            => (ing_pc'[s] = "read" /\ pipe'[s] = pipe[s])]_vars
  /\ [](\A s \in SrcIds :
          (mon_pc[s] # "none" /\ ing_pc[s] \in {"join", "done"})
            => (pipe[s] = <<>> /\ child[s] # "running"))
  /\ [](\A s \in SrcIds :
          (Running /\ ing_pc[s] = "read" /\ pipe[s] # <<>>) => ENABLED IngestRead(s))

\* a record was refused with an error and the record of the next line stored
C21_Witness ==
  \E s \in SrcIds :
    /\ Len(results[s]) >= 2
    /\ results[s][1] = "RecordInsertionError"
    /\ results[s][2] = "Ok"
    /\ Len(Rows(table_name[s])) = 1

\* C22: sources map 1:1 to tables: the table name of a launched source is the
\* sanitized form of its command (the same command gives the same table), and
\* two launched sources with different commands have different tables.
C22_OneTablePerCommand ==
  \A s \in SrcIds : \A u \in SrcIds :
    (Launched(s) /\ Launched(u)) =>
      /\ table_name[s] = table_src_name(srcs[s])
      /\ (srcs[s] = srcs[u]) <=> (table_name[s] = table_name[u])

\* the scalar leaves of a JSON value in document order, each with its path:
\* parent.field for a field (the bare field name under the empty path) and
\* parent[i] for the element at position i, counted from 0
RECURSIVE Leaves(_, _)
RECURSIVE KidLeaves(_, _, _)
KidLeaves(json, path, i) ==
  IF i > Len(json.kids) THEN <<>>
  ELSE LET kid == json.kids[i]
           sub == IF json.t = "obj"
                  THEN (IF path = "" THEN kid.k ELSE path \o "." \o kid.k)
                  ELSE path \o "[" \o ToString(i - 1) \o "]"
       IN Leaves(kid.v, sub) \o KidLeaves(json, path, i + 1)
Leaves(json, path) ==
  IF json.t \in {"obj", "arr"} THEN KidLeaves(json, path, 1)
  ELSE <<[path |-> path, leaf |-> json]>>

\* the lines read so far that parsed as a JSON object and were flattened
Flattened ==
  UNION {{read_log[s][i] : i \in 1..Len(read_log[s])} : s \in SrcIds}
LeafPaths(L) == {L[i].path : i \in 1..Len(L)}
DistinctPaths(L) ==
  \A i \in 1..Len(L) : \A j \in 1..Len(L) : (L[i].path = L[j].path) => (i = j)
NestedRecord == [p \in {"a.b", "c[0]", "c[1]"} |->
                   CASE p = "a.b" -> "1" [] p = "c[0]" -> "10" [] OTHER -> "20"]

C24_LeafText ==
  \A e \in Flattened :
    (from_str(e.line).ok /\ e.call) =>
      LET L == Leaves(from_str(e.line).val, "")
          text(leaf) == CASE leaf.t = "num" -> ToString(leaf.n)
                          [] leaf.t = "bool" -> (IF leaf.b THEN "true" ELSE "false")
                          [] leaf.t = "null" -> "null"
                          [] OTHER -> leaf.s
      IN DistinctPaths(L) =>
           \A i \in 1..Len(L) : e.rec[L[i].path] = text(L[i].leaf)

\* C25: the step that takes a line that cannot be read off the stream leaves
\* the thread at the head of its read loop and calls no insert (no result, no
\* record, nothing executed on the connection); every line behind it can
\* still be read, and when the thread has left the loop no line is unread and
\* every call made for a later line has returned.
C25_UnreadableLineSkipped ==
  /\ [][\A s \in SrcIds :
          (/\ ing_pc[s] = "read"
           /\ pipe[s] # <<>>
           /\ Head(pipe[s]) = BadUtf8Line
           /\ pipe'[s] = Tail(pipe[s]))
            => (/\ ing_pc'[s] = "read"
                /\ results' = results
                /\ read_log' = read_log
                /\ data' = data
                /\ conn' = conn
                /\ conn_lock' = conn_lock)]_vars
  /\ [](\A s \in SrcIds :
          (Running /\ ing_pc[s] = "read" /\ pipe[s] # <<>>)
            => (ENABLED IngestRead(s) /\ ~ENABLED IngestJoin(s)))
  /\ [](\A s \in SrcIds :
          (mon_pc[s] # "none" /\ ing_pc[s] \in {"join", "done"})
            => (pipe[s] = <<>> /\ Len(results[s]) = Len(Calls(s))))

\* a line that cannot be read has been taken off the stream with no call made,
\* and the line behind it is about to be read
C25_Witness ==
  \E s \in DOMAIN srcs :
    /\ srcs[s] = CmdTail
    /\ lines_left = MaxStoreLines - 2
    /\ pipe[s] = <<LineStr>>
    /\ read_log[s] = <<>>
    /\ results[s] = <<>>
    /\ ing_pc[s] = "read"
    /\ ENABLED IngestRead(s)

\* C26: a store that is between the lock of insert_data and its return
\* (migration attempts, row-insert attempts and the delays between them) holds
\* the connection lock all the time, and in every step taken meanwhile no
\* other store opens its table, enters a call, or executes a migration or a
\* row insert, so whatever changes the connection is the holder's statement.
C26_OneLockPerCall ==
  /\ [](\A s \in SrcIds : ing_pc[s] \in {"alter", "insert"} => conn_lock = s)
  /\ [][\A s \in SrcIds :
          ing_pc[s] \in {"alter", "insert"} =>
            /\ ing_pc'[s] \in {"alter", "insert"} => conn_lock' = s
            /\ \A u \in SrcIds \ {s} :
                 /\ mig_log'[u] = mig_log[u]
                 /\ ins_log'[u] = ins_log[u]
                 /\ results'[u] = results[u]
                 /\ ing_pc[u] \in {"new", "lock"} => ing_pc'[u] = ing_pc[u]
            /\ conn' # conn => (mig_log'[s] # mig_log[s] \/ ins_log'[s] # ins_log[s])]_vars

\* a store waits before a retry of its row insert, holding the lock, while the
\* other store has a record ready and waits for the lock
C26_Witness ==
  \E s \in SrcIds : \E u \in SrcIds \ {s} :
    /\ ing_pc[s] = "insert"
    /\ attempt[s] >= 1
    /\ conn_lock = s
    /\ ing_pc[u] = "lock"

\* C27: when no insert_data call is in progress on the connection (every
\* call so far has returned, with success or with an error), the connection
\* has no open transaction.
C27_NoOpenTransaction ==
  (conn_lock = 0) => ~conn.txn

\* C28: of two stores open on the same table, neither tries to add a column
\* the table already has (at the first attempt of a migration no column of the
\* batch is in the catalog), and, the engine failing no statement, every
\* insert_data call of either store succeeds.
C28_SharedTable ==
  \A s \in SrcIds : \A u \in SrcIds \ {s} :
    (/\ ing_pc[s] \notin {"none", "new", "new_failed"}
     /\ ing_pc[u] \notin {"none", "new", "new_failed"}
     /\ table_name[s] = table_name[u])
      => /\ (ing_pc[s] = "alter" /\ mig_log[s] = <<>>)
              => \A i \in 1..Len(new_cols[s]) : new_cols[s][i] \notin Cols(table_name[s])
         /\ (faults = 0) => \A i \in 1..Len(results[s]) : results[s][i] = "Ok"

\* C29: in every state the counter equals the number of completed incr calls
\* minus the number of completed decr calls, over all sources and threads.
C29_NoLostUpdate ==
  LET RECURSIVE Total(_, _)
      Total(f, S) == IF S = {} THEN 0
                     ELSE LET x == CHOOSE y \in S : TRUE IN f[x] + Total(f, S \ {x})
      incrs == Total(enters, SrcIds)
      decrs == Total([s \in SrcIds |-> Len(leaves[s])], SrcIds)
  IN child_ctr = incrs - decrs

\* the increment of the second source and the decrement of the first have
\* both completed, the decrement by a thread running beside the launcher
C29_Witness ==
  \E s \in SrcIds : \E u \in SrcIds \ {s} :
    /\ enters[s] = 1 /\ enters[u] = 1
    /\ leaves[s] # <<>> /\ leaves[u] = <<>>
    /\ child_ctr = 1

\* C30: the engine failing no statement, an insert_data call with the empty
\* record (the line {}) returns success and has added a row whose every column
\* is null.
C30_EmptyObjectStored ==
  \A s \in SrcIds : \A i \in 1..Len(results[s]) :
    (faults = 0 /\ Calls(s)[i].rec = EmptyMap)
      => /\ results[s][i] = "Ok"
         /\ \E j \in 1..Len(Rows(table_name[s])) : Rows(table_name[s])[j] = EmptyMap

====
